---- MODULE Spec2Model ----
(***************************************************************************)
(* The DC resistivity sounding inversion script                            *)
(* tutorials/temporary/plot_3a_dcr_sounding_layers_inv.py as a state       *)
(* machine: the script's statements in order (load, survey construction,   *)
(* uncertainties, data, mapping, misfit, directives) followed by the run   *)
(* of the inversion it starts.  The statements of the script are           *)
(* translated from the script; the inversion engine it calls (data,        *)
(* data_misfit, optimization, directives, inversion) is not part of the    *)
(* script and follows the design document.                                 *)
(***************************************************************************)
EXTENDS Integers, Sequences, FiniteSets, TLC

(* ------------------------------ bounds -------------------------------- *)

\* rows of the observed-data file
MaxRows == 3
\* largest data misfit a forward evaluation returns
MaxPhiD == 4
\* largest regularization value an evaluation returns
MaxPhiM == 1
\* largest eigenvalue-ratio estimate of the initial beta
MaxEig == 1
\* step-length halvings the line search may do before it gives up
MaxLS == 1

\* the (A, B) current-electrode pairs a row may name
TxIds == {1, 2}
\* the datum values a row may hold
DatumValues == {-1, 0, 1}

(* ------------------------- helpers (numpy) ---------------------------- *)

Min(a, b) == IF a <= b THEN a ELSE b

Range(s) == {s[i] : i \in 1..Len(s)}

\* a[i:j] of a Python sequence, i and j zero-based and non-negative, the
\* stop clipped to the length and an empty result when i >= j
Slice(s, i, j) == SubSeq(s, i + 1, Min(j, Len(s)))

\* np.sort of an array of distinct integers
NpSort(s) ==
  CHOOSE t \in [1..Len(s) -> Range(s)] :
    /\ Range(t) = Range(s)
    /\ \A i \in 1..Len(s) : \A j \in 1..Len(s) : i < j => t[i] < t[j]

\* the zero-based index of the first row holding v
FirstIndex(col, v) == (CHOOSE i \in 1..Len(col) :
                         col[i] = v /\ \A j \in 1..(i - 1) : col[j] # v) - 1

\* np.unique(..., axis=0, return_index=True): the indices of the first
\* occurrences, in the order of the sorted unique values
NpUniqueIndex(col) ==
  LET vals == NpSort(CHOOSE t \in [1..Cardinality(Range(col)) -> Range(col)] :
                       Range(t) = Range(col))
  IN  [j \in 1..Len(vals) |-> FirstIndex(col, vals[j])]

RECURSIVE Flatten(_)
Flatten(ss) == IF ss = <<>> THEN <<>> ELSE Head(ss) \o Flatten(Tail(ss))

(* ------------------------------ state --------------------------------- *)

VARIABLES
  pc,            \* the statement the script is at
  dobs_file,     \* the loaded table: one record [ab, d] per row
  k,             \* the index array k, zero-based values
  n_tx,          \* n_tx
  ii,            \* the loop variable of the source loop
  source_list,   \* the sources built so far: [ab, rx], rx the rows received
  uncertainties, \* uncertainties, in thousandths of a datum unit
  m,             \* the model vector
  beta,          \* the trade-off parameter: mant / coolingFactor^exp
  iter,          \* completed outer iterations
  phi_d,         \* data misfit of m
  phi_d0,        \* data misfit of the starting model
  phi_m,         \* regularization value of m
  cgIter,        \* inner CG iterations of the current solve
  lsIter,        \* step-length halvings of the current line search
  trace,         \* the recorded per-iteration entries
  status,        \* how the script ended
  recovered_model

vars == <<pc, dobs_file, k, n_tx, ii, source_list, uncertainties, m, beta,
          iter, phi_d, phi_d0, phi_m, cgIter, lsIter, trace, status,
          recovered_model>>

surveyVars == <<k, n_tx, ii, source_list>>
runVars == <<m, beta, iter, phi_d, phi_d0, phi_m, cgIter, lsIter, trace,
             recovered_model>>

\* the columns of the table
ab_electrodes == [i \in 1..Len(dobs_file) |-> dobs_file[i].ab]
\* the (M, N) pair of a row, named by the row it comes from
mn_electrodes == [i \in 1..Len(dobs_file) |-> i]
dobs == [i \in 1..Len(dobs_file) |-> dobs_file[i].d]

Tables == UNION {[1..n -> [ab : TxIds, d : DatumValues]] : n \in 1..MaxRows}

Init ==
  /\ pc = "unique"
  /\ dobs_file \in Tables
  /\ k = <<>>
  /\ n_tx = 0
  /\ ii = 0
  /\ source_list = <<>>
  /\ uncertainties = <<>>
  /\ m = <<>>
  /\ beta = [mant |-> 0, exp |-> 0]
  /\ iter = 0
  /\ phi_d = 0
  /\ phi_d0 = 0
  /\ phi_m = 0
  /\ cgIter = 0
  /\ lsIter = 0
  /\ trace = <<>>
  /\ status = "none"
  /\ recovered_model = <<>>

(* ------------------------ survey construction ------------------------- *)

\* k after lines 65-68: the sorted first-occurrence indices and the
\* closing index len(k)+1
IndexArray(col) ==
  LET first == NpSort(NpUniqueIndex(col))
  IN  first \o <<Len(first) + 1>>

\* lines 65-68
Unique ==
  /\ pc = "unique"
  /\ n_tx' = Len(NpUniqueIndex(ab_electrodes))
  /\ k' = IndexArray(ab_electrodes)
  /\ ii' = 0
  /\ pc' = "sources"
  /\ UNCHANGED <<dobs_file, source_list, uncertainties, status>>
  /\ UNCHANGED runVars

\* the source of loop index i (zero-based): lines 73-79
Source(i) ==
  [ab |-> ab_electrodes[k[i + 1] + 1],
   rx |-> Slice(mn_electrodes, k[i + 1], k[i + 2])]

\* one pass of the loop of lines 71-79
AppendSource ==
  /\ pc = "sources"
  /\ ii < n_tx
  /\ source_list' = Append(source_list, Source(ii))
  /\ ii' = ii + 1
  /\ UNCHANGED <<pc, dobs_file, k, n_tx, uncertainties, status>>
  /\ UNCHANGED runVars

\* the receivers of the survey, in survey order
SurveyReceivers == Flatten([j \in 1..Len(source_list) |-> source_list[j].rx])
\* survey.nD
nD == Len(SurveyReceivers)

(* ----------------------- uncertainties and data ----------------------- *)

\* 0.025, in thousandths
noise_fraction == 25

\* faulty variant: the magnitude of the datum is taken
Uncertainties_abs(d) ==
  [i \in 1..Len(d) |-> noise_fraction * (IF d[i] < 0 THEN -d[i] ELSE d[i])]

\* line 102: uncertainties = 0.025*dobs, in thousandths of a datum unit
Uncertainties(d) == [i \in 1..Len(d) |-> noise_fraction * d[i]]

\* data.Data(survey, dobs=..., noise_floor=...): one datum per receiver of
\* the survey, else the data object is malformed
DataShapeOK == nD = Len(dobs)

\* lines 82-109, the data vector fitting the survey
DefineData ==
  /\ pc = "sources"
  /\ ii = n_tx
  /\ DataShapeOK
  /\ uncertainties' = Uncertainties(dobs)
  /\ pc' = "mapping"
  /\ UNCHANGED <<dobs_file, status>>
  /\ UNCHANGED surveyVars
  /\ UNCHANGED runVars

\* lines 82-109, the data vector not fitting the survey
DataConfigurationError ==
  /\ pc = "sources"
  /\ ii = n_tx
  /\ ~DataShapeOK
  /\ uncertainties' = Uncertainties(dobs)
  /\ status' = "ConfigurationError"
  /\ pc' = "done"
  /\ UNCHANGED dobs_file
  /\ UNCHANGED surveyVars
  /\ UNCHANGED runVars

(* ------------------------ mesh, wiring, model -------------------------- *)

\* line 120
resistivities == <<1000, 1000, 1000>>
\* line 121
layer_thicknesses == <<50, 50, 50>>
\* mesh.nC of TensorMesh([layer_thicknesses], '0')
nC == Len(layer_thicknesses)

\* np.log, in tenths, rounded down
NpLog(x) == CASE x = 1000 -> 69
              [] x = 50 -> 39
              [] OTHER -> 0

\* maps.Wires(('rho', mesh.nC), ('t', mesh.nC-1)): consecutive blocks
wire_map == [rho |-> [first |-> 1, size |-> nC],
             t   |-> [first |-> nC + 1, size |-> nC - 1]]

\* the entries of the model vector a wire selects
WireIndices(w) == w.first .. (w.first + w.size - 1)

\* faulty variant: the thickness of the bottom layer is kept
starting_model_full ==
  [i \in 1..Len(resistivities) |-> NpLog(resistivities[i])]
    \o [i \in 1..Len(layer_thicknesses) |-> NpLog(layer_thicknesses[i])]

\* line 141: np.r_[np.log(resistivities), np.log(layer_thicknesses[:-1])]
starting_model ==
  LET t == Slice(layer_thicknesses, 0, Len(layer_thicknesses) - 1)
  IN  [i \in 1..Len(resistivities) |-> NpLog(resistivities[i])]
        \o [i \in 1..Len(t) |-> NpLog(t[i])]

\* lines 175-179: the mesh of mesh.hx.size cells, on the rho wire
reg_rho == [cells |-> nC, mapping |-> wire_map.rho]
\* lines 180-184: the mesh of mesh.hx.size-1 cells, on the t wire
reg_t == [cells |-> nC - 1, mapping |-> wire_map.t]

\* faulty variant: a zero reference model is passed
m_ref_zero == [i \in 1..Len(starting_model) |-> 0]

\* the reference model of reg_rho and reg_t: none is passed, so the
\* starting model
m_ref == starting_model

\* lines 120-156: mesh, wires, maps, starting model, simulation
DefineModel ==
  /\ pc = "mapping"
  /\ m' = starting_model
  /\ pc' = "misfit"
  /\ UNCHANGED <<dobs_file, uncertainties, status>>
  /\ UNCHANGED surveyVars
  /\ UNCHANGED <<beta, iter, phi_d, phi_d0, phi_m, cgIter, lsIter, trace,
                 recovered_model>>

(* ---------------------------- data misfit ------------------------------ *)

\* every uncertainty strictly positive
UncertaintiesOK == \A i \in 1..Len(uncertainties) : uncertainties[i] > 0

\* lines 166-167, the uncertainties valid
DefineMisfit ==
  /\ pc = "misfit"
  /\ UncertaintiesOK
  /\ pc' = "run"
  /\ UNCHANGED <<dobs_file, uncertainties, status>>
  /\ UNCHANGED surveyVars
  /\ UNCHANGED runVars

\* line 166, an uncertainty not positive
InvalidUncertaintyError ==
  /\ pc = "misfit"
  /\ ~UncertaintiesOK
  /\ status' = "InvalidUncertaintyError"
  /\ pc' = "done"
  /\ UNCHANGED <<dobs_file, uncertainties>>
  /\ UNCHANGED surveyVars
  /\ UNCHANGED runVars

(* --------------------- optimizer and directives ------------------------ *)

\* faulty variant: one outer iteration more
maxIter_plus1 == 50 + 1

\* line 190
maxIter == 50
\* line 190
maxIterCG == 30
\* line 200
beta0_ratio == 10
\* faulty variant: cooling every second iteration
beta_schedule_rate2 == [coolingFactor |-> 5, coolingRate |-> 2]

\* line 201
beta_schedule == [coolingFactor |-> 5, coolingRate |-> 3]
\* faulty variant: twice the target
target_misfit_chi2 == [chifact |-> 2]

\* line 202
target_misfit == [chifact |-> 1]
\* line 206
directives_list == <<"starting_beta", "beta_schedule", "target_misfit">>

Installed(d) == \E i \in 1..Len(directives_list) : directives_list[i] = d

\* a * coolingFactor^c <= b, for integers a, b and c >= 0
RECURSIVE ScaledLeq(_, _, _)
ScaledLeq(a, c, b) ==
  IF c = 0 THEN a <= b
  ELSE ScaledLeq(a, c - 1, b \div beta_schedule.coolingFactor)

\* b1 <= b2 for two betas mant / coolingFactor^exp
BetaLeq(b1, b2) ==
  IF b2.exp >= b1.exp
  THEN ScaledLeq(b1.mant, b2.exp - b1.exp, b2.mant)
  ELSE ~ScaledLeq(b2.mant, b1.exp - b2.exp, b1.mant - 1)

BetaLess(b1, b2) == BetaLeq(b1, b2) /\ ~BetaLeq(b2, b1)

\* beta / coolingFactor
Cool(b) == [mant |-> b.mant, exp |-> b.exp + 1]

\* Phi = phi_d + beta * phi_m:  Phi(pd1, pm1) <= Phi(pd2, pm2)
PhiLeq(pd1, pm1, pd2, pm2, b) ==
  ScaledLeq(pd1 - pd2, b.exp, b.mant * (pm2 - pm1))

\* the values the regularization may take at a model: 0 at the reference
RegValues(mm) == IF mm = m_ref THEN {0} ELSE 0..MaxPhiM

\* the target of the stopping rule: chifact * N_d
Target == target_misfit.chifact * nD

\* m + t*p: every entry moved by one step unit
Step(mm) == [i \in 1..Len(mm) |-> mm[i] + 1]

\* lines 175-212 up to the first outer iteration: regularization,
\* optimizer, inverse problem, directives, inv.run(starting_model) and the
\* directives' initialization (BetaEstimate_ByEig)
StartRun ==
  /\ pc = "run"
  /\ \E eig \in 1..MaxEig :
       beta' = IF Installed("starting_beta")
               THEN [mant |-> beta0_ratio * eig, exp |-> 0]
               ELSE [mant |-> 1, exp |-> 0]
  /\ phi_d' \in 0..MaxPhiD
  /\ phi_d0' = phi_d'
  /\ phi_m' \in RegValues(m)
  /\ iter' = 0
  /\ cgIter' = 0
  /\ pc' = "cg"
  /\ UNCHANGED <<dobs_file, uncertainties, status>>
  /\ UNCHANGED surveyVars
  /\ UNCHANGED <<m, lsIter, trace, recovered_model>>

\* one inner conjugate-gradient iteration
CGIterate ==
  /\ pc = "cg"
  /\ cgIter < maxIterCG
  /\ cgIter' = cgIter + 1
  /\ UNCHANGED <<pc, dobs_file, uncertainties, status>>
  /\ UNCHANGED surveyVars
  /\ UNCHANGED <<m, beta, iter, phi_d, phi_d0, phi_m, lsIter, trace,
                 recovered_model>>

\* the inner solve ends: its tolerance met, or cut off at maxIterCG
CGFinish ==
  /\ pc = "cg"
  /\ cgIter >= 1
  /\ cgIter' = 0
  /\ lsIter' = 0
  /\ pc' = "linesearch"
  /\ UNCHANGED <<dobs_file, uncertainties, status>>
  /\ UNCHANGED surveyVars
  /\ UNCHANGED <<m, beta, iter, phi_d, phi_d0, phi_m, trace, recovered_model>>

\* faulty variant: the test looks at the data misfit alone
SufficientDecrease_misfit(pdt, pmt) == pdt <= phi_d

\* the sufficient-decrease test of a trial step with values pdt, pmt
SufficientDecrease(pdt, pmt) == PhiLeq(pdt, pmt, phi_d, phi_m, beta)

\* a trial step gives sufficient decrease and is accepted
LineSearchAccept ==
  /\ pc = "linesearch"
  /\ \E pdt \in 0..MaxPhiD : \E pmt \in RegValues(Step(m)) :
       /\ SufficientDecrease(pdt, pmt)
       /\ phi_d' = pdt
       /\ phi_m' = pmt
  /\ m' = Step(m)
  /\ pc' = "enditer"
  /\ UNCHANGED <<dobs_file, uncertainties, status>>
  /\ UNCHANGED surveyVars
  /\ UNCHANGED <<beta, iter, phi_d0, cgIter, lsIter, trace, recovered_model>>

\* a trial step gives no sufficient decrease: the step length is halved
LineSearchBacktrack ==
  /\ pc = "linesearch"
  /\ lsIter < MaxLS
  /\ \E pdt \in 0..MaxPhiD : \E pmt \in RegValues(Step(m)) :
       ~SufficientDecrease(pdt, pmt)
  /\ lsIter' = lsIter + 1
  /\ UNCHANGED <<pc, dobs_file, uncertainties, status>>
  /\ UNCHANGED surveyVars
  /\ UNCHANGED <<m, beta, iter, phi_d, phi_d0, phi_m, cgIter, trace,
                 recovered_model>>

\* faulty variant: the trial model is kept
KeptModel_trial(mm) == Step(mm)

\* the model the run returns when it ends without an accepted step
KeptModel(mm) == mm

\* no step length within the minimum bound gives sufficient decrease
LineSearchFailure ==
  /\ pc = "linesearch"
  /\ lsIter = MaxLS
  /\ \E pdt \in 0..MaxPhiD : \E pmt \in RegValues(Step(m)) :
       ~SufficientDecrease(pdt, pmt)
  /\ m' = KeptModel(m)
  /\ recovered_model' = m'
  /\ status' = "line_search_failure"
  /\ pc' = "done"
  /\ UNCHANGED <<dobs_file, uncertainties>>
  /\ UNCHANGED surveyVars
  /\ UNCHANGED <<beta, iter, phi_d, phi_d0, phi_m, cgIter, lsIter, trace>>

\* the forward evaluation of a trial step is non-finite or non-physical
NumericalFailure ==
  /\ pc = "linesearch"
  /\ m' = KeptModel(m)
  /\ recovered_model' = m'
  /\ status' = "numerical_failure"
  /\ pc' = "done"
  /\ UNCHANGED <<dobs_file, uncertainties>>
  /\ UNCHANGED surveyVars
  /\ UNCHANGED <<beta, iter, phi_d, phi_d0, phi_m, cgIter, lsIter, trace>>

\* BetaSchedule at the end of outer iteration it
Scheduled(b, it) ==
  IF Installed("beta_schedule") /\ it % beta_schedule.coolingRate = 0
  THEN Cool(b) ELSE b

\* TargetMisfit at the end of an outer iteration
TargetReached(pd) == Installed("target_misfit") /\ pd <= Target

\* the save directive at the end of outer iteration it
Recorded(tr, it) ==
  IF Installed("save")
  THEN Append(tr, [iteration |-> it, beta |-> beta, phi_d |-> phi_d,
                   phi_m |-> phi_m, model |-> m])
  ELSE tr

\* the end of an outer iteration: the directives in turn, then the
\* stopping rules
EndIter ==
  /\ pc = "enditer"
  /\ iter' = iter + 1
  /\ trace' = Recorded(trace, iter')
  /\ beta' = Scheduled(beta, iter')
  /\ IF TargetReached(phi_d)
     THEN /\ status' = "converged"
          /\ recovered_model' = m
          /\ pc' = "done"
     ELSE IF iter' >= maxIter
     THEN /\ status' = "max_iterations"
          /\ recovered_model' = m
          /\ pc' = "done"
     ELSE /\ pc' = "cg"
          /\ UNCHANGED <<status, recovered_model>>
  /\ UNCHANGED <<dobs_file, uncertainties>>
  /\ UNCHANGED surveyVars
  /\ UNCHANGED <<m, phi_d, phi_d0, phi_m, cgIter, lsIter>>

Next ==
  \/ Unique
  \/ AppendSource
  \/ DefineData
  \/ DataConfigurationError
  \/ DefineModel
  \/ DefineMisfit
  \/ InvalidUncertaintyError
  \/ StartRun
  \/ CGIterate
  \/ CGFinish
  \/ LineSearchAccept
  \/ LineSearchBacktrack
  \/ LineSearchFailure
  \/ NumericalFailure
  \/ EndIter

Spec == Init /\ [][Next]_vars

FairSpec == Spec /\ WF_vars(Next)

(* ============================ properties =============================== *)

\* the inversion is running
Running == pc \in {"cg", "linesearch", "enditer"}
\* construction failed
Raised == status \in {"ConfigurationError", "InvalidUncertaintyError"}
\* the inversion has run and ended
RunEnded == pc = "done" /\ ~Raised
Started == Running \/ RunEnded

(* C1: target-misfit stopping rule, chi = 1.  A run that after outer     *)
(* iteration k >= 1 goes on, or ends with another status than converged,  *)
(* has phi_d(m_k) > 1*N_d; a run that ended converged has phi_d of the    *)
(* returned model <= 1*N_d, is at its end and takes no further step.      *)
C1_TargetMisfitStop ==
  /\ (Started /\ iter >= 1 /\ pc # "enditer" /\ status # "converged") =>
       phi_d > 1 * Len(dobs)
  /\ status = "converged" =>
       /\ pc = "done"
       /\ phi_d <= 1 * Len(dobs)
       /\ recovered_model = m
       /\ ~ENABLED Next

\* a run converged after three outer iterations
C1_Witness == status = "converged" /\ iter = 3 /\ phi_d = 1 * Len(dobs)

(* C2: beta schedule.  During a run beta is strictly positive; no step    *)
(* increases it; the end of every third outer iteration divides it by 5,  *)
(* which makes it strictly smaller; every other step leaves it unchanged. *)
C2_BetaSchedule ==
  /\ [](Started => beta.mant > 0)
  /\ [][Started =>
          /\ BetaLeq(beta', beta)
          /\ IF pc = "enditer" /\ iter' % 3 = 0
             THEN /\ beta_schedule.coolingFactor = 5
                  /\ beta' = [mant |-> beta.mant, exp |-> beta.exp + 1]
                  /\ BetaLess(beta', beta)
             ELSE beta' = beta]_vars

\* beta after the cooling events of iterations 3 and 6
C2_Witness == Running /\ iter = 7 /\ beta.exp = 2 /\ beta.mant = 10

C4_MonotoneDescent ==
  [][pc = "linesearch" =>
       /\ (m' # m =>
             /\ pc' = "enditer"
             /\ beta' = beta
             /\ PhiLeq(phi_d', phi_m', phi_d, phi_m, beta))
       /\ (pc' = "enditer" => m' # m)
       /\ (status' = "line_search_failure" =>
             /\ m' = m
             /\ phi_d' = phi_d /\ phi_m' = phi_m
             /\ recovered_model' = m
             /\ pc' = "done")]_vars

\* an accepted step of the fifth outer iteration, at the largest misfit
C4_Witness == pc = "enditer" /\ iter = 4 /\ phi_d = 4 /\ phi_m = 0

(* C5: when the starting model meets the target (phi_d(m_0) <= 1*N_d),    *)
(* the run ends within one outer iteration, and with a status of the run, *)
(* never an exception.                                                    *)
C5_TargetMetAtStart ==
  (Started /\ phi_d0 <= 1 * Len(dobs)) =>
     /\ iter <= 1
     /\ iter = 1 => (pc = "done" /\ status = "converged")
     /\ pc = "done" =>
          status \in {"converged", "line_search_failure", "numerical_failure"}

\* a run that started at the target and converged with its first iteration
C5_Witness ==
  /\ status = "converged" /\ iter = 1
  /\ phi_d0 = 1 * Len(dobs) /\ phi_d < phi_d0

(* C6: construction-time validation.  With an observed datum <= 0, that   *)
(* is an uncertainty 0.025*datum that is not strictly positive, the       *)
(* inversion never starts: the script ends with InvalidUncertaintyError,  *)
(* or with ConfigurationError when the data do not fit the survey either. *)
(* A run that started has strictly positive uncertainties and data that   *)
(* fit the survey, and a script that raised has done no iteration.        *)
C6_ConstructionValidation ==
  /\ (\E i \in 1..Len(dobs) : dobs[i] <= 0) =>
       /\ ~Started
       /\ pc = "done" =>
            status = IF DataShapeOK THEN "InvalidUncertaintyError"
                     ELSE "ConfigurationError"
  /\ Started => (UncertaintiesOK /\ DataShapeOK /\ Len(uncertainties) = nD)
  /\ Raised => (pc = "done" /\ iter = 0 /\ m \in {<<>>, starting_model}
                /\ beta.mant = 0 /\ ~ENABLED Next)

\* a data file of two data that fit the survey, one of them negative
C6_Witness ==
  /\ status = "InvalidUncertaintyError"
  /\ Len(dobs) = 2 /\ dobs[1] = 1 /\ dobs[2] = -1

(* C7: the per-iteration trace.  After n completed outer iterations the   *)
(* trace holds n entries, with the iteration indices 1..n in order.       *)
C7_TraceRecorded ==
  Started =>
    /\ Len(trace) = iter
    /\ \A i \in 1..Len(trace) : trace[i].iteration = i

(* C8: numerical failure.  The step during which it happens is not        *)
(* applied: the model, its misfit values and the iteration count stay,    *)
(* the run ends with status numerical_failure and returns that model.     *)
C8_NumericalFailure ==
  /\ [][status' = "numerical_failure" =>
          /\ pc = "linesearch"
          /\ m' = m
          /\ phi_d' = phi_d /\ phi_m' = phi_m /\ iter' = iter
          /\ recovered_model' = m
          /\ pc' = "done"]_vars
  /\ [](status = "numerical_failure" => ~ENABLED Next)

\* a numerical failure in the third outer iteration
C8_Witness ==
  /\ status = "numerical_failure" /\ iter = 2
  /\ recovered_model = Step(Step(starting_model))

\* the source list is complete
SurveyBuilt == pc # "unique" /\ (pc = "sources" => ii = n_tx)

(* C9: the survey covers the data exactly.  Once the source list is       *)
(* built, every receiver of a source comes from a row with that source's  *)
(* (A, B), no two sources share an (A, B), and the receivers in survey    *)
(* order are the rows of the file in file order, one per datum.           *)
C9_SurveyCoversData ==
  SurveyBuilt =>
    /\ \A j \in 1..Len(source_list) :
         \A r \in 1..Len(source_list[j].rx) :
           ab_electrodes[source_list[j].rx[r]] = source_list[j].ab
    /\ \A i \in 1..Len(source_list) : \A j \in 1..Len(source_list) :
         source_list[i].ab = source_list[j].ab => i = j
    /\ SurveyReceivers = mn_electrodes
    /\ nD = Len(dobs)

(* C10: the shape of the model vector, for the mesh of L = 3 layers.  The *)
(* starting model and the model in every later state have 2L-1 = 5        *)
(* entries; the rho wire is the first 3 entries and the t wire the last   *)
(* 2, together all entries and none twice; the regularization meshes have *)
(* the sizes of their wires; layer 3 has no thickness entry.              *)
C10_ModelShape ==
  (pc \in {"misfit", "run"} \/ Started) =>
    /\ nC = 3
    /\ Len(m) = 5
    /\ WireIndices(wire_map.rho) = 1..3
    /\ WireIndices(wire_map.t) = 4..5
    /\ WireIndices(wire_map.rho) \cup WireIndices(wire_map.t) = 1..Len(m)
    /\ WireIndices(wire_map.rho) \cap WireIndices(wire_map.t) = {}
    /\ reg_rho.cells = Cardinality(WireIndices(reg_rho.mapping))
    /\ reg_t.cells = Cardinality(WireIndices(reg_t.mapping))
    /\ Cardinality(WireIndices(wire_map.t)) = nC - 1
    /\ Len(m_ref) = Len(m)

\* the model after ten accepted steps
C10_Witness == Running /\ iter = 10 /\ Len(m) = 5 /\ m[5] = 39 + 10

====
